---- MODULE Spec2Model ----
(***************************************************************************)
(* Client-side transaction orchestration of the miden tutorials            *)
(* (rust-client/src/bin): the foreign-account resolver of                  *)
(* oracle_data_query.rs, the note chain of unauthenticated_note_transfer.rs*)
(* (ephemeral_note_transfer.rs has the same loop), the consumability       *)
(* poller wait_for_notes of hash_preimage_note.rs / note_creation_in_masm, *)
(* the placeholder replacement and the main of counter_contract_fpi.rs,    *)
(* and the authenticated consumptions of hash_preimage_note.rs and         *)
(* create_mint_consume_send.rs, and the slot index expression of the       *)
(* resolver taken as a function of its own.                                *)
(* Each component has its own specification over the shared variables; the *)
(* variables of the other components stay at their initial values.         *)
(***************************************************************************)
EXTENDS Integers, Sequences, FiniteSets, TLC

VARIABLES
    \* ---- get_oracle_foreign_accounts (oracle_data_query.rs) ----
    rPc,               \* position inside get_oracle_foreign_accounts
    storage,           \* storage slots of the oracle account: slot index -> Word
    overflow_checks,   \* build profile: TRUE = u8 overflow panics, FALSE = it wraps
    trading_pair,      \* argument trading_pair
    publisher_count,   \* local publisher_count
    rI,                \* index i of the map closure (lines 40-46)
    publisher_ids,     \* local publisher_ids
    rJ,                \* position of the for loop over publisher_ids (line 50)
    foreign_accounts,  \* local foreign_accounts
    returned,          \* value handed to the caller: NoList or the Ok list
    rFailed,           \* history: directory entry indices whose read/import failed
    \* ---- note chain: main of unauthenticated_note_transfer.rs ----
    cPc,               \* position inside main
    accounts_len,      \* accounts.len(): the chain length N
    ci,                \* loop variable i of the chain loop (line 175)
    p2id_note,         \* local p2id_note
    deserialized_p2id_note,  \* local deserialized_p2id_note
    tx_execution_result,     \* local tx_execution_result (the executed transaction)
    submitted,         \* transactions accepted by submit_transaction, in order
    balance,           \* vault balance of the faucet asset, per account index
    start_balance,     \* history: balance when the chain loop is entered
    next_serial,       \* state of client.rng(): the next note serial number
    nExec,             \* history: calls of new_transaction made so far
    nSubmit,           \* history: calls of submit_transaction made so far
    nSync,             \* history: calls of sync_state made so far
    failedAt,          \* history: where a client call failed, or NoFailure
    \* ---- wait_for_notes (hash_preimage_note.rs, note_creation_in_masm.rs) ----
    wPc,               \* position inside wait_for_notes
    expected,          \* argument expected
    notes,             \* local notes: ids returned by get_consumable_notes
    synced_notes,      \* Sync State: the account's consumable notes as of the last sync
    ledger_notes,      \* the account's consumable notes on the ledger
    minted,            \* notes the producer has minted for the account so far
    mint_total,        \* notes the producer mints in all
    \* ---- template resolution (counter_contract_fpi.rs, counter_contract_increment.rs) ----
    tPc,               \* position: before the replace chain, after it, after compile
    tSource,           \* the text read from the .masm file (raw_account_code, original_code)
    tBindings,         \* placeholder name -> value to substitute, or Unbound
    tText,             \* the text being resolved (count_reader_code, replaced_code)
    tFirst,            \* history: the text after the first resolution
    \* ---- FPI workflow: main of counter_contract_fpi.rs ----
    fPc,               \* position inside main
    fExports,          \* names the compiled count reader library exports
    fHasNode,          \* whether the MAST forest holds the node of the export
    fPublic,           \* whether the node returns AccountDetails::Public
    copy_count_proc_hash,   \* local copy_count_proc_hash, or NoDigest before line 177
    replaced_code,     \* local replaced_code, or the empty text before line 268
    fLog,              \* history: the calls completed so far, in order
    fFailedAt,         \* history: the step that panicked, or "none"
    \* ---- authenticated consumption: main of hash_preimage_note.rs (steps 2-4)
    \* ---- and of create_mint_consume_send.rs (steps 3-4) ----
    aFlow,             \* which of the two mains runs
    aPc,               \* position inside main
    aI,                \* hash_preimage: 1 = step 2, 2 = steps 3-4; consolidation: i of the mint loop
    aTx,               \* local tx_exec / tx_result / tx_execution_result
    aNotes,            \* local notes / list_of_note_ids: ids of the last query
    aSynced,           \* Sync State: the unconsumed notes known as of the last sync
    aLedger,           \* the unconsumed notes on the ledger
    aPending,          \* accepted transactions not yet included in a block
    aSubmitted,        \* transactions accepted by submit_transaction, in order
    aRequests,         \* history: every request handed to new_transaction, with
                       \* the ids the account's queries had shown before the call
    aSeen,             \* history: per account, the ids its queries have returned
    aHanded,           \* history: calls of submit_transaction made so far
    aLast,             \* history: the client call made last, or "none"
    aFailed,           \* history: the last call that returned an Err, or "none"
    \* ---- the slot index `2 + i as u8` (oracle_data_query.rs, line 42) ----
    sPc,               \* position: before the expression, after it, or panicked
    sCount,            \* publisher_count: the u64 read from the directory
    sI,                \* the u64 entry index i the closure is called with
    sChecks,           \* build profile: TRUE = u8 overflow panics, FALSE = it wraps
    sSlot              \* the u8 the expression evaluated to

rvars == <<rPc, storage, overflow_checks, trading_pair, publisher_count, rI,
           publisher_ids, rJ, foreign_accounts, returned, rFailed>>

cvars == <<cPc, accounts_len, ci, p2id_note, deserialized_p2id_note,
           tx_execution_result, submitted, balance, start_balance, next_serial,
           nExec, nSubmit, nSync, failedAt>>

wvars == <<wPc, expected, notes, synced_notes, ledger_notes, minted, mint_total>>

tvars == <<tPc, tSource, tBindings, tText, tFirst>>

fvars == <<fPc, fExports, fHasNode, fPublic, copy_count_proc_hash, replaced_code,
           fLog, fFailedAt>>

avars == <<aFlow, aPc, aI, aTx, aNotes, aSynced, aLedger, aPending, aSubmitted,
           aRequests, aSeen, aHanded, aLast, aFailed>>

svars == <<sPc, sCount, sI, sChecks, sSlot>>

vars == <<rvars, cvars, wvars, tvars, fvars, avars, svars>>

\* What an action of one component leaves alone: the other components.
ROthers == <<cvars, wvars, tvars, fvars, avars, svars>>
COthers == <<rvars, wvars, tvars, fvars, avars, svars>>
WOthers == <<rvars, cvars, tvars, fvars, avars, svars>>
TOthers == <<rvars, cvars, wvars, fvars, avars, svars>>
FOthers == <<rvars, cvars, wvars, tvars, avars, svars>>
AOthers == <<rvars, cvars, wvars, tvars, fvars, svars>>
SOthers == <<rvars, cvars, wvars, tvars, fvars, avars>>

\* ------------------------------------------------------------------ bounds
MaxCount == 5
MaxPair == 2
MaxAccounts == 10
MaxExpected == 5
MaxMint == 5
MaxParts == 3

\* The largest directory count the slot index is computed for.
MaxDirCount == 259

\* --------------------------------------------------------------- constants
ZERO == 0
U8 == 256
LeafSlot == 1
CountSlot == 1
DirBase == 2

Max0(x) == IF x > 0 THEN x ELSE 0

\* u64::saturating_sub
saturating_sub(a, b) == IF a >= b THEN a - b ELSE 0

\* Account ids the directory slots and the root may hold: <<prefix, suffix>>.
IdUniverse == {<<7, 8>>, <<8, 7>>, <<9, 9>>}
oracle_account_id == <<5, 6>>

NoList == [status |-> "none", list |-> <<>>]

\* Ok(foreign_accounts)
Ok(list) == [status |-> "ok", list |-> list]

\* ====================================================================
\*  Foreign-account resolver: get_oracle_foreign_accounts
\* ====================================================================

\* A storage of n slots whose slot 1 holds the count c in element 0 and whose
\* slot 2+k holds entry ids[k] packed as [_, _, suffix, prefix].
StorageOf(n, c, ids) ==
    [k \in 0..(n - 1) |->
        IF k = CountSlot THEN <<c, ZERO, ZERO, ZERO>>
        ELSE IF k > DirBase /\ (k - DirBase) <= Len(ids)
             THEN <<ZERO, ZERO, ids[k - DirBase][2], ids[k - DirBase][1]>>
             ELSE <<ZERO, ZERO, ZERO, ZERO>>]

\* Sequences over S of length exactly n.
SeqsOfLen(S, n) == [1..n -> S]

\* storage.get_item(idx): Ok(word) when the slot exists.
HasItem(idx) == idx \in DOMAIN storage
get_item(idx) == storage[idx]

\* (1..publisher_count.saturating_sub(1)): the half-open range of entry indices.
PublisherRangeInclusive(c) == 1..saturating_sub(c, 1)
PublisherRange(c) == 1..(saturating_sub(c, 1) - 1)

\* 2 + i as u8: the cast truncates to 8 bits; the u8 addition overflows at 256,
\* which panics with overflow checks and wraps without.
SlotIndexOverflows(i) == DirBase + (i % U8) >= U8
SlotIndex(i) == (DirBase + (i % U8)) % U8

\* AccountId::new_unchecked([words[3], words[2]]) (Word is 0-indexed in Rust).
DecodeIdSwapped(words) == <<words[3], words[4]>>
DecodeId(words) == <<words[4], words[3]>>

\* StorageMapKey::from([ZERO, ZERO, ZERO, Felt::new(trading_pair)])
StorageMapKey(tp) == <<ZERO, ZERO, ZERO, tp>>

\* AccountStorageRequirements::new([(1u8, &[key])]): slot -> declared map keys.
LeafRequirementsWholeMap(tp) == {}
LeafRequirements(tp) == {<<LeafSlot, {StorageMapKey(tp)}>>}

\* AccountStorageRequirements::default()
DefaultRequirements == {}

\* ForeignAccount::public(id, requirements)
ForeignAccount(id, reqs) == [id |-> id, reqs |-> reqs]

RInit ==
    /\ rPc = "import_root"
    /\ \E c \in 0..MaxCount, n \in 0..(MaxCount + 1) :
         \E ids \in SeqsOfLen(IdUniverse, Max0(c - 2)) :
            storage = StorageOf(n, c, ids)
    /\ overflow_checks \in BOOLEAN
    /\ trading_pair \in 1..MaxPair
    /\ publisher_count = 0
    /\ rI = 1
    /\ publisher_ids = <<>>
    /\ rJ = 1
    /\ foreign_accounts = <<>>
    /\ returned = NoList
    /\ rFailed = {}

\* The function stops at this point: `?` returns the Err, unwrap/expect panic.
\* Nothing is handed to the caller.
RAbort(kind, failedEntries) ==
    /\ rPc' = kind
    /\ rFailed' = rFailed \cup failedEntries
    /\ UNCHANGED <<storage, overflow_checks, trading_pair, publisher_count, rI,
                   publisher_ids, rJ, foreign_accounts, returned>>

\* line 29: client.import_account_by_id(oracle_account_id).await?
ImportRoot ==
    /\ UNCHANGED ROthers
    /\ rPc = "import_root"
    /\ \/ /\ rPc' = "get_account"
          /\ UNCHANGED <<storage, overflow_checks, trading_pair, publisher_count,
                         rI, publisher_ids, rJ, foreign_accounts, returned, rFailed>>
       \/ RAbort("err", {})

\* lines 31-35: get_account(..).await.expect("RPC failed").expect("not found")
GetAccount ==
    /\ UNCHANGED ROthers
    /\ rPc = "get_account"
    /\ \/ /\ rPc' = "read_count"
          /\ UNCHANGED <<storage, overflow_checks, trading_pair, publisher_count,
                         rI, publisher_ids, rJ, foreign_accounts, returned, rFailed>>
       \/ RAbort("panic", {})

\* line 38: storage.get_item(1).unwrap()[0].as_int()
ReadCount ==
    /\ UNCHANGED ROthers
    /\ rPc = "read_count"
    /\ IF HasItem(CountSlot)
       THEN /\ publisher_count' = get_item(CountSlot)[1]
            /\ rI' = 1
            /\ rPc' = "map"
            /\ UNCHANGED <<storage, overflow_checks, trading_pair, publisher_ids,
                           rJ, foreign_accounts, returned, rFailed>>
       ELSE RAbort("panic", {})

\* The closure's unwrap on a slot that cannot be read (line 42).
OnSlotUnreadableSkip(i) ==
    /\ rI' = i + 1
    /\ rFailed' = rFailed \cup {i}
    /\ UNCHANGED <<rPc, storage, overflow_checks, trading_pair, publisher_count,
                   publisher_ids, rJ, foreign_accounts, returned>>
OnSlotUnreadable(i) == RAbort("panic", {i})

\* lines 40-46: one evaluation of the map closure, or the end of collect().
MapStep ==
    /\ UNCHANGED ROthers
    /\ rPc = "map"
    /\ IF rI \in PublisherRange(publisher_count)
       THEN IF (SlotIndexOverflows(rI) /\ overflow_checks) \/ ~HasItem(SlotIndex(rI))
            THEN OnSlotUnreadable(rI)
            ELSE /\ publisher_ids' = Append(publisher_ids, DecodeId(get_item(SlotIndex(rI))))
                 /\ rI' = rI + 1
                 /\ UNCHANGED <<rPc, storage, overflow_checks, trading_pair,
                                publisher_count, rJ, foreign_accounts, returned, rFailed>>
       ELSE /\ rPc' = "for_import"
            /\ rJ' = 1
            /\ UNCHANGED <<storage, overflow_checks, trading_pair, publisher_count,
                           rI, publisher_ids, foreign_accounts, returned, rFailed>>

\* lines 50-51: next pid of the for loop; client.import_account_by_id(pid).await?
ForImport ==
    /\ UNCHANGED ROthers
    /\ rPc = "for_import"
    /\ IF rJ <= Len(publisher_ids)
       THEN \/ /\ rPc' = "for_push"
               /\ UNCHANGED <<storage, overflow_checks, trading_pair, publisher_count,
                              rI, publisher_ids, rJ, foreign_accounts, returned, rFailed>>
            \/ RAbort("err", {rJ})
       ELSE /\ rPc' = "push_root"
            /\ UNCHANGED <<storage, overflow_checks, trading_pair, publisher_count,
                           rI, publisher_ids, rJ, foreign_accounts, returned, rFailed>>

\* lines 53-64: foreign_accounts.push(ForeignAccount::public(pid, reqs)?)
ForPush ==
    /\ UNCHANGED ROthers
    /\ rPc = "for_push"
    /\ \/ /\ foreign_accounts' = Append(foreign_accounts,
                ForeignAccount(publisher_ids[rJ], LeafRequirements(trading_pair)))
          /\ rJ' = rJ + 1
          /\ rPc' = "for_import"
          /\ UNCHANGED <<storage, overflow_checks, trading_pair, publisher_count,
                         rI, publisher_ids, returned, rFailed>>
       \/ RAbort("err", {rJ})

\* lines 67-70: foreign_accounts.push(ForeignAccount::public(oracle_account_id, default)?)
PushRoot ==
    /\ UNCHANGED ROthers
    /\ rPc = "push_root"
    /\ \/ /\ foreign_accounts' = Append(foreign_accounts,
                ForeignAccount(oracle_account_id, DefaultRequirements))
          /\ rPc' = "return"
          /\ UNCHANGED <<storage, overflow_checks, trading_pair, publisher_count,
                         rI, publisher_ids, rJ, returned, rFailed>>
       \/ RAbort("err", {})

\* line 72: Ok(foreign_accounts)
ReturnOk ==
    /\ UNCHANGED ROthers
    /\ rPc = "return"
    /\ returned' = Ok(foreign_accounts)
    /\ rPc' = "ok"
    /\ UNCHANGED <<storage, overflow_checks, trading_pair, publisher_count, rI,
                   publisher_ids, rJ, foreign_accounts, rFailed>>

RNext ==
    \/ ImportRoot
    \/ GetAccount
    \/ ReadCount
    \/ MapStep
    \/ ForImport
    \/ ForPush
    \/ PushRoot
    \/ ReturnOk

\* ====================================================================
\*  The slot index of a directory entry: `2 + i as u8` for one i of the
\*  range (1..publisher_count.saturating_sub(1)), as a function of its own
\* ====================================================================

\* Any count the directory slot may hold and any index the map hands to the
\* closure for it.
SInit ==
    /\ sPc = "slot_index"
    /\ sCount \in 0..MaxDirCount
    /\ sI \in PublisherRange(sCount)
    /\ sChecks \in BOOLEAN
    /\ sSlot = 0

\* line 42, overflow checks on: the u8 addition panics when it overflows.
SSlotIndexChecked ==
    /\ UNCHANGED SOthers
    /\ sPc = "slot_index"
    /\ sChecks
    /\ IF SlotIndexOverflows(sI)
       THEN /\ sPc' = "panicked"
            /\ UNCHANGED sSlot
       ELSE /\ sSlot' = SlotIndex(sI)
            /\ sPc' = "get_item"
    /\ UNCHANGED <<sCount, sI, sChecks>>

\* line 42, overflow checks off: the u8 addition wraps.
SSlotIndexWrapping ==
    /\ UNCHANGED SOthers
    /\ sPc = "slot_index"
    /\ ~sChecks
    /\ sSlot' = SlotIndex(sI)
    /\ sPc' = "get_item"
    /\ UNCHANGED <<sCount, sI, sChecks>>

SNext ==
    \/ SSlotIndexChecked
    \/ SSlotIndexWrapping

\* ====================================================================
\*  Note chain: main of unauthenticated_note_transfer.rs
\*  (ephemeral_note_transfer.rs lines 198-265 is the same loop)
\* ====================================================================

amount == 100
SendAmountExcess == amount + 1
send_amount == 20
FaucetIdx == -1

NoNote == [sender |-> -2, target |-> -2, amount |-> 0, note_type |-> "none",
           serial_num |-> 0]
NoTx == [kind |-> "none", account |-> -2, hop |-> -2, input |-> "none", note |-> NoNote]
NoFailure == [step |-> "none", hop |-> -2]

\* let note_type = if i % 2 == 0 { Private } else { Public }
NoteTypeForAllPublic(i) == "Public"
NoteTypeFor(i) == IF i % 2 = 0 THEN "Private" ELSE "Public"

\* create_p2id_note(sender, target, assets, note_type, aux, rng): the rng draws
\* the serial number.
create_p2id_note(sender, target, amt, note_type, serial) ==
    [sender |-> sender, target |-> target, amount |-> amt,
     note_type |-> note_type, serial_num |-> serial]

\* Note::id(): the digest of the note's contents (collision-free here: the
\* contents themselves).
NoteId(n) == <<n.sender, n.target, n.amount, n.note_type, n.serial_num>>

\* Serializable::to_bytes / Deserializable::read_from_bytes of a Note: the
\* fields written in order, the note type as its tag byte, and read back.
TypeTag(t) == IF t = "Public" THEN 1 ELSE IF t = "Private" THEN 2 ELSE 0
TagType(b) == IF b = 1 THEN "Public" ELSE IF b = 2 THEN "Private" ELSE "none"
to_bytes(n) == <<n.sender, n.target, n.amount, TypeTag(n.note_type), n.serial_num>>
read_from_bytes(b) ==
    [sender |-> b[1], target |-> b[2], amount |-> b[3], note_type |-> TagType(b[4]),
     serial_num |-> b[5]]

\* lines 220-221: the note handed to the consumer is the created note sent
\* through its byte form.
TransportedRecreated(note) == [note EXCEPT !.serial_num = note.serial_num + 1]
Transported(note) == read_from_bytes(to_bytes(note))

\* lines 185-204: the note of iteration i goes from accounts[i] to
\* accounts[i + 1] and holds send_amount of the faucet's asset.
HopNoteToSelf(i, serial) ==
    create_p2id_note(i, i, send_amount, NoteTypeFor(i), serial)
HopNote(i, serial) ==
    create_p2id_note(i, i + 1, send_amount, NoteTypeFor(i), serial)

\* lines 224-227: the consumption request of a hop is built with
\* with_unauthenticated_input_notes: it carries the note itself.
ConsumeInputAuthenticated == "authenticated"
ConsumeInput == "unauthenticated"

\* for i in 0..number_of_accounts - 1: the exclusive end of the loop range.
LoopEndShort(n) == n - 2
LoopEnd(n) == n - 1

\* The order of the client calls inside one loop iteration (lines 209-236).
HopStepsConsumeFirst ==
    <<"consume_exec", "consume_submit", "create_exec", "create_submit", "transport">>
HopStepsExecFirst ==
    <<"create_exec", "transport", "consume_exec", "create_submit", "consume_submit">>
HopStepsSubmitSwapped ==
    <<"create_exec", "transport", "consume_exec", "consume_submit", "create_submit">>
HopSteps ==
    <<"create_exec", "create_submit", "transport", "consume_exec", "consume_submit">>

StepAfter(step) ==
    LET k == CHOOSE j \in 1..Len(HopSteps) : HopSteps[j] = step
    IN  IF k < Len(HopSteps) THEN HopSteps[k + 1] ELSE "loop_next"

\* The effect of an accepted transaction on the vaults: an output note leaves
\* the sender's vault, an input note enters the consumer's.
ApplyNoDebit(tx, bal) ==
    IF tx.kind = "consume" /\ tx.account \in DOMAIN bal
    THEN [bal EXCEPT ![tx.account] = @ + tx.note.amount]
    ELSE bal
Apply(tx, bal) ==
    IF tx.account \notin DOMAIN bal THEN bal
    ELSE IF tx.kind = "consume" THEN [bal EXCEPT ![tx.account] = @ + tx.note.amount]
    ELSE IF tx.kind = "create" THEN [bal EXCEPT ![tx.account] = @ - tx.note.amount]
    ELSE bal

\* new_transaction executes against the account's vault: an output note needs
\* its asset to be there.
CanExecute(tx) ==
    tx.kind = "create" => balance[tx.account] >= tx.note.amount

\* The transactions the chain loop submitted (those of a hop).
ChainTxs == SelectSeq(submitted, LAMBDA t : t.hop >= 0)

CInit ==
    /\ cPc = "mint_exec"
    /\ accounts_len \in 2..MaxAccounts
    /\ ci = 0
    /\ p2id_note = NoNote
    /\ deserialized_p2id_note = NoNote
    /\ tx_execution_result = NoTx
    /\ submitted = <<>>
    /\ balance = [a \in 0..(accounts_len - 1) |-> 0]
    /\ start_balance = [a \in 0..(accounts_len - 1) |-> 0]
    /\ next_serial = 1
    /\ nExec = 0
    /\ nSubmit = 0
    /\ nSync = 0
    /\ failedAt = NoFailure

\* A client call returned Err (`?`) or an unwrap panicked: main ends here.
OnClientErrorRetry(step) ==
    /\ cPc' = cPc
    /\ failedAt' = [step |-> step, hop |-> ci]
OnClientError(step) ==
    /\ cPc' = "failed"
    /\ failedAt' = [step |-> step, hop |-> ci]

\* client.new_transaction(account, request).await?
NewTransaction(step, tx, nextPc) ==
    /\ cPc = step
    /\ nExec' = nExec + 1
    /\ \/ /\ CanExecute(tx)
          /\ tx_execution_result' = tx
          /\ cPc' = nextPc
          /\ UNCHANGED failedAt
       \/ /\ OnClientError(step)
          /\ UNCHANGED tx_execution_result
    /\ UNCHANGED <<accounts_len, ci, p2id_note, deserialized_p2id_note, submitted,
                   balance, start_balance, nSubmit, nSync>>

\* client.submit_transaction(tx_execution_result).await?
SubmitTransaction(step, nextPc) ==
    /\ cPc = step
    /\ nSubmit' = nSubmit + 1
    /\ \/ /\ submitted' = Append(submitted, tx_execution_result)
          /\ balance' = Apply(tx_execution_result, balance)
          /\ cPc' = nextPc
          /\ UNCHANGED failedAt
       \/ /\ OnClientError(step)
          /\ UNCHANGED <<submitted, balance>>
    /\ UNCHANGED <<accounts_len, ci, p2id_note, deserialized_p2id_note,
                   tx_execution_result, start_balance, nExec, nSync>>

\* client.sync_state().await?
SyncState(step, nextPc) ==
    /\ cPc = step
    /\ nSync' = nSync + 1
    /\ \/ /\ cPc' = nextPc
          /\ UNCHANGED failedAt
       \/ OnClientError(step)
    /\ UNCHANGED <<accounts_len, ci, p2id_note, deserialized_p2id_note,
                   tx_execution_result, submitted, balance, start_balance, nExec,
                   nSubmit>>

\* lines 132-145: the mint request (a public note of `amount` for alice) is
\* built with a fresh serial number and executed against the faucet.
MintExec ==
    /\ UNCHANGED COthers
    /\ cPc = "mint_exec"
    /\ next_serial' = next_serial + 1
    /\ NewTransaction("mint_exec",
          [kind |-> "mint", account |-> FaucetIdx, hop |-> -1, input |-> "none",
           note |-> create_p2id_note(FaucetIdx, 0, amount, "Public", next_serial)],
          "mint_submit")

\* lines 146-148
MintSubmit ==
    /\ UNCHANGED COthers
    /\ SubmitTransaction("mint_submit", "mint_consume_exec")
    /\ UNCHANGED next_serial

\* lines 151-164: alice consumes created_notes().get_note(0) unauthenticated.
MintConsumeExec ==
    /\ UNCHANGED COthers
    /\ cPc = "mint_consume_exec"
    /\ NewTransaction("mint_consume_exec",
          [kind |-> "consume", account |-> 0, hop |-> -1,
           input |-> "unauthenticated", note |-> tx_execution_result.note],
          "mint_consume_submit")
    /\ UNCHANGED next_serial

\* line 165
MintConsumeSubmit ==
    /\ UNCHANGED COthers
    /\ SubmitTransaction("mint_consume_submit", "sync")
    /\ UNCHANGED next_serial

\* line 166
SyncAfterMint ==
    /\ UNCHANGED COthers
    /\ SyncState("sync", "loop")
    /\ UNCHANGED next_serial

\* lines 175-206: the loop head and the note of this iteration.
LoopHead ==
    /\ UNCHANGED COthers
    /\ cPc = "loop"
    /\ IF ci < LoopEnd(accounts_len)
       THEN /\ p2id_note' = HopNote(ci, next_serial)
            /\ next_serial' = next_serial + 1
            /\ cPc' = HopSteps[1]
       ELSE /\ cPc' = "final_sync"
            /\ UNCHANGED <<p2id_note, next_serial>>
    /\ start_balance' = IF ci = 0 THEN balance ELSE start_balance
    /\ UNCHANGED <<accounts_len, ci, deserialized_p2id_note, tx_execution_result,
                   submitted, balance, nExec, nSubmit, nSync, failedAt>>

\* lines 209-215: with_own_output_notes(vec![output_note]); new_transaction(accounts[i])
CreateExec ==
    /\ UNCHANGED COthers
    /\ cPc = "create_exec"
    /\ NewTransaction("create_exec",
          [kind |-> "create", account |-> ci, hop |-> ci, input |-> "none",
           note |-> p2id_note],
          StepAfter("create_exec"))
    /\ UNCHANGED next_serial

\* line 216
CreateSubmit ==
    /\ UNCHANGED COthers
    /\ SubmitTransaction("create_submit", StepAfter("create_submit"))
    /\ UNCHANGED next_serial

\* lines 220-221: to_bytes, then read_from_bytes(..).unwrap()
Transport ==
    /\ UNCHANGED COthers
    /\ cPc = "transport"
    /\ deserialized_p2id_note' = Transported(p2id_note)
    /\ cPc' = StepAfter("transport")
    /\ UNCHANGED <<accounts_len, ci, p2id_note, tx_execution_result, submitted,
                   balance, start_balance, next_serial, nExec, nSubmit, nSync,
                   failedAt>>

\* lines 224-231: with_unauthenticated_input_notes([(deserialized_p2id_note, None)]);
\* new_transaction(accounts[i + 1])
ConsumeExec ==
    /\ UNCHANGED COthers
    /\ cPc = "consume_exec"
    /\ NewTransaction("consume_exec",
          [kind |-> "consume", account |-> ci + 1, hop |-> ci,
           input |-> ConsumeInput, note |-> deserialized_p2id_note],
          StepAfter("consume_exec"))
    /\ UNCHANGED next_serial

\* lines 233-236
ConsumeSubmit ==
    /\ UNCHANGED COthers
    /\ SubmitTransaction("consume_submit", StepAfter("consume_submit"))
    /\ UNCHANGED next_serial

\* line 247: the end of the loop body, i advances.
LoopNext ==
    /\ UNCHANGED COthers
    /\ cPc = "loop_next"
    /\ ci' = ci + 1
    /\ cPc' = "loop"
    /\ UNCHANGED <<accounts_len, p2id_note, deserialized_p2id_note,
                   tx_execution_result, submitted, balance, start_balance,
                   next_serial, nExec, nSubmit, nSync, failedAt>>

\* line 257
FinalSync ==
    /\ UNCHANGED COthers
    /\ SyncState("final_sync", "print_balances")
    /\ UNCHANGED next_serial

\* lines 258-272: get_account(..).await.unwrap().unwrap() for every account, Ok(())
PrintBalances ==
    /\ UNCHANGED COthers
    /\ cPc = "print_balances"
    /\ \/ /\ cPc' = "done"
          /\ UNCHANGED failedAt
       \/ OnClientError("print_balances")
    /\ UNCHANGED <<accounts_len, ci, p2id_note, deserialized_p2id_note,
                   tx_execution_result, submitted, balance, start_balance,
                   next_serial, nExec, nSubmit, nSync>>

CNext ==
    \/ MintExec
    \/ MintSubmit
    \/ MintConsumeExec
    \/ MintConsumeSubmit
    \/ SyncAfterMint
    \/ LoopHead
    \/ CreateExec
    \/ CreateSubmit
    \/ Transport
    \/ ConsumeExec
    \/ ConsumeSubmit
    \/ LoopNext
    \/ FinalSync
    \/ PrintBalances

\* ====================================================================
\*  Consumability poller: wait_for_notes, and the producer of the notes
\* ====================================================================

\* if notes.len() >= expected { break; }
EnoughInverted(n, e) == n <= e
EnoughStrict(n, e) == n > e
Enough(n, e) == n >= e

\* lines 123-128: fewer notes than expected is no error: the count is
\* printed and the loop sleeps before its next iteration.
OnUnmetError == "err"
OnUnmet == "sleep"

\* lines 118-119: the `?` after sync_state and get_consumable_notes returns
\* the Err from wait_for_notes at once.
OnCallErrorRetry == "sleep"
OnCallError == "err"

WInit ==
    /\ wPc = "sync"
    /\ expected \in 0..MaxExpected
    /\ notes = {}
    /\ synced_notes = {}
    /\ ledger_notes = {}
    /\ minted = 0
    /\ mint_total \in 0..MaxMint

\* line 118: client.sync_state().await? succeeds; the local view is the ledger's.
WSyncOk ==
    /\ UNCHANGED WOthers
    /\ wPc = "sync"
    /\ synced_notes' = ledger_notes
    /\ wPc' = "query"
    /\ UNCHANGED <<expected, notes, ledger_notes, minted, mint_total>>

\* line 118: sync_state fails and `?` returns the error.
WSyncErr ==
    /\ UNCHANGED WOthers
    /\ wPc = "sync"
    /\ wPc' = OnCallError
    /\ UNCHANGED <<expected, notes, synced_notes, ledger_notes, minted, mint_total>>

\* line 119: get_consumable_notes(Some(id)).await? reads the local view.
WQueryOk ==
    /\ UNCHANGED WOthers
    /\ wPc = "query"
    /\ notes' = synced_notes
    /\ wPc' = "check"
    /\ UNCHANGED <<expected, synced_notes, ledger_notes, minted, mint_total>>

\* line 119: the query fails and `?` returns the error.
WQueryErr ==
    /\ UNCHANGED WOthers
    /\ wPc = "query"
    /\ wPc' = OnCallError
    /\ UNCHANGED <<expected, notes, synced_notes, ledger_notes, minted, mint_total>>

\* A check that consumes the notes it has counted, as the consolidation loop
\* of create_mint_consume_send.rs does in its own success branch.
WCheckConsuming ==
    /\ UNCHANGED WOthers
    /\ wPc = "check"
    /\ wPc' = IF Enough(Cardinality(notes), expected) THEN "ok" ELSE OnUnmet
    /\ ledger_notes' = IF Enough(Cardinality(notes), expected)
                          THEN ledger_notes \ notes ELSE ledger_notes
    /\ UNCHANGED <<expected, notes, synced_notes, minted, mint_total>>

\* lines 120-127, 130: break and Ok(()), or the "Waiting..." message.
WCheck ==
    /\ UNCHANGED WOthers
    /\ wPc = "check"
    /\ wPc' = IF Enough(Cardinality(notes), expected) THEN "ok" ELSE OnUnmet
    /\ UNCHANGED <<expected, notes, synced_notes, ledger_notes, minted, mint_total>>

\* lines 128-129: sleep(3 s), the end of the loop body (notes goes out of scope).
WSleep ==
    /\ UNCHANGED WOthers
    /\ wPc = "sleep"
    /\ notes' = {}
    /\ wPc' = "sync"
    /\ UNCHANGED <<expected, synced_notes, ledger_notes, minted, mint_total>>

\* create_mint_consume_send.rs lines 152-167: the producer submits one more
\* mint transaction for the account.
Mint ==
    /\ UNCHANGED WOthers
    /\ minted < mint_total
    /\ minted' = minted + 1
    /\ UNCHANGED <<wPc, expected, notes, synced_notes, ledger_notes, mint_total>>

\* The network includes a minted note in a block: it becomes consumable.
Commit ==
    /\ UNCHANGED WOthers
    /\ Cardinality(ledger_notes) < minted
    /\ ledger_notes' = ledger_notes \cup {Cardinality(ledger_notes) + 1}
    /\ UNCHANGED <<wPc, expected, notes, synced_notes, minted, mint_total>>

WNext ==
    \/ WSyncOk
    \/ WSyncErr
    \/ WQueryOk
    \/ WQueryErr
    \/ WCheck
    \/ WSleep
    \/ Mint
    \/ Commit

\* No client call fails.
WNextNoFail ==
    \/ WSyncOk
    \/ WQueryOk
    \/ WCheck
    \/ WSleep
    \/ Mint
    \/ Commit

\* ====================================================================
\*  Specifications: one per component; the other components do not run.
\* ====================================================================

\* ====================================================================
\* Template resolution: the chain of str::replace calls that fills the
\* placeholders of a MASM source (counter_contract_fpi.rs lines 105-114 and
\* 268, counter_contract_increment.rs line 190), and the compile call that
\* follows it.  A text is a sequence of characters.
\* ====================================================================

\* The placeholder names of lines 106-113, each shortened to one letter.
get_count_proc_hash == "h"
account_id_prefix == "p"
account_id_suffix == "s"
Names == {get_count_proc_hash, account_id_prefix, account_id_suffix}

\* "{name}": the pattern handed to replace.
Placeholder(name) == <<"{", name, "}">>

\* The order of the replace calls in the source (lines 106, 108-109, 112-113).
CodeOrder == <<get_count_proc_hash, account_id_prefix, account_id_suffix>>

\* A name the workflow has no replace call for.
Unbound == <<"unbound">>

\* The values a placeholder is bound to: a digit (as in an id half), a
\* digit followed by a letter that also occurs in a placeholder name (as in a
\* hex digest), such a letter alone, and a value that itself holds a
\* placeholder.
Values == {<<"0">>, <<"0", "h">>, <<"h">>, Placeholder(account_id_prefix)}

\* The pieces the source texts are built from.
Parts == {<<"{">>, <<"}">>, <<"h">>} \cup {Placeholder(n) : n \in Names}

RECURSIVE Flatten(_)
Flatten(ss) == IF ss = <<>> THEN <<>> ELSE Head(ss) \o Flatten(Tail(ss))

Texts == UNION {{Flatten(f) : f \in [1..k -> Parts]} : k \in 0..MaxParts}

\* str::replace(from, to) replaces only the first match.
RECURSIVE replaceFirst(_, _, _)
replaceFirst(text, from, to) ==
    IF Len(text) < Len(from) THEN text
    ELSE IF SubSeq(text, 1, Len(from)) = from
         THEN to \o SubSeq(text, Len(from) + 1, Len(text))
         ELSE <<Head(text)>> \o replaceFirst(Tail(text), from, to)

\* str::replace(from, to): every non-overlapping match of `from`, found from
\* left to right in the original text, is replaced by `to`; the inserted
\* text is not scanned again.
RECURSIVE replace(_, _, _)
replace(text, from, to) ==
    IF Len(text) < Len(from) THEN text
    ELSE IF SubSeq(text, 1, Len(from)) = from
         THEN to \o replace(SubSeq(text, Len(from) + 1, Len(text)), from, to)
         ELSE <<Head(text)>> \o replace(Tail(text), from, to)

\* A chain that stops after its first replace call.
ResolveInHeadOnly(order, text, b) ==
    IF order = <<>> \/ b[Head(order)] = Unbound THEN text
    ELSE replace(text, Placeholder(Head(order)), b[Head(order)])

\* The replace chain, taken in the given order of names; a name without a
\* binding has no replace call.
RECURSIVE ResolveIn(_, _, _)
ResolveIn(order, text, b) ==
    IF order = <<>> THEN text
    ELSE ResolveIn(Tail(order),
                   IF b[Head(order)] = Unbound THEN text
                   ELSE replace(text, Placeholder(Head(order)), b[Head(order)]),
                   b)

\* lines 105-114: raw_account_code.replace(..).replace(..).replace(..)
Resolve(text, b) == ResolveIn(CodeOrder, text, b)

\* Number of occurrences of pat in text (overlapping ones included).
Count(pat, text) ==
    Cardinality({i \in 1..Len(text) :
                    /\ i + Len(pat) - 1 <= Len(text)
                    /\ SubSeq(text, i, i + Len(pat) - 1) = pat})

Occurs(pat, text) == Count(pat, text) > 0

\* replace returns a String, not a Result: after the chain the program is
\* at the compile call whatever the text holds.
AfterResolveStrict(text) ==
    IF \E n \in Names : Occurs(Placeholder(n), text) THEN "resolve_error" ELSE "resolved"
AfterResolve(text) == "resolved"

TInit ==
    /\ tPc = "start"
    /\ tSource \in Texts
    /\ tBindings \in [Names -> Values \cup {Unbound}]
    /\ tText = tSource
    /\ tFirst = <<>>

\* lines 105-114 (and 268, 190): the replace chain.
TResolve ==
    /\ UNCHANGED TOthers
    /\ tPc = "start"
    /\ tText' = Resolve(tSource, tBindings)
    /\ tFirst' = tText'
    /\ tPc' = AfterResolve(tText')
    /\ UNCHANGED <<tSource, tBindings>>

\* The same replace chain applied to the text it produced.
TResolveAgain ==
    /\ UNCHANGED TOthers
    /\ tPc = "resolved"
    /\ tText' = Resolve(tText, tBindings)
    /\ tPc' = "again"
    /\ UNCHANGED <<tSource, tBindings, tFirst>>

\* lines 120-126, 271: the assembler accepts the text; a text that still
\* holds a placeholder is no MASM source.
TCompileOk ==
    /\ UNCHANGED TOthers
    /\ tPc = "resolved"
    /\ ~ \E n \in Names : Occurs(Placeholder(n), tText)
    /\ tPc' = "compiled"
    /\ UNCHANGED <<tSource, tBindings, tText, tFirst>>

\* lines 126, 271: compile(..).unwrap() / compile_tx_script(..).unwrap() on an
\* Err of the assembler.
TCompileErr ==
    /\ UNCHANGED TOthers
    /\ tPc = "resolved"
    /\ tPc' = "compile_error"
    /\ UNCHANGED <<tSource, tBindings, tText, tFirst>>

TNext ==
    \/ TResolve
    \/ TResolveAgain
    \/ TCompileOk
    \/ TCompileErr

\* ====================================================================
\* The FPI workflow: main of counter_contract_fpi.rs. Every client or
\* library call whose result is unwrapped either completes or panics.
\* ====================================================================

\* The placeholder of reader_script.masm (line 268), shortened to one letter.
copy_count == "c"

\* original_code (line 265): a script that calls the placeholder.
ScriptSource == <<"call", ".">> \o Placeholder(copy_count)

\* The names a compiled count reader component can export.
ExportNames == {"copy_count", "other"}

NoDigest == <<"no_digest">>

\* .digest().to_hex() of the node of copy_count (lines 177-183).
DigestHex == <<"0", "x", "d">>

\* lines 171 and 181: find(..).unwrap() and get_node_by_id(..).unwrap() on
\* None panic; the variant goes on to the next statement without a digest.
OnMissingDigestContinue(next) == next
OnMissingDigest(next) == "panicked"

FInit ==
    /\ fPc = "sync"
    /\ fExports \in SUBSET ExportNames
    /\ fHasNode \in BOOLEAN
    /\ fPublic \in BOOLEAN
    /\ copy_count_proc_hash = NoDigest
    /\ replaced_code = <<>>
    /\ fLog = <<>>
    /\ fFailedAt = "none"

\* A call completes: it is logged and main goes on.
FDone(step, next) ==
    /\ fPc' = next
    /\ fLog' = Append(fLog, step)
    /\ UNCHANGED fFailedAt

\* unwrap() on an Err or a None: the thread panics, main ends.
FPanic(step) ==
    /\ fPc' = "panicked"
    /\ fFailedAt' = step
    /\ UNCHANGED fLog

\* A call whose result is unwrapped.
FCall(step, next) ==
    /\ fPc = step
    /\ (FDone(step, next) \/ FPanic(step))

\* line 89: client.sync_state().await.unwrap()
FSync ==
    /\ UNCHANGED FOthers
    /\ FCall("sync", "resolve_reader")
    /\ UNCHANGED <<fExports, fHasNode, fPublic, copy_count_proc_hash, replaced_code>>

\* lines 98-114: read count_reader.masm and fill its three placeholders
\* with the constants of lines 102-103.
FResolveReader ==
    /\ UNCHANGED FOthers
    /\ FCall("resolve_reader", "compile_reader")
    /\ UNCHANGED <<fExports, fHasNode, fPublic, copy_count_proc_hash, replaced_code>>

\* lines 117-126: AccountComponent::compile(..).unwrap()
FCompileReader ==
    /\ UNCHANGED FOthers
    /\ FCall("compile_reader", "add_reader")
    /\ UNCHANGED <<fExports, fHasNode, fPublic, copy_count_proc_hash, replaced_code>>

\* lines 128-164: anchor block, AccountBuilder::build, client.add_account
FAddReader ==
    /\ UNCHANGED FOthers
    /\ FCall("add_reader", "find_export")
    /\ UNCHANGED <<fExports, fHasNode, fPublic, copy_count_proc_hash, replaced_code>>

\* lines 167-171: exports().find(|export| export.name.as_str() == "copy_count").unwrap()
FFindExport ==
    /\ UNCHANGED FOthers
    /\ fPc = "find_export"
    /\ IF "copy_count" \in fExports
       THEN FDone("find_export", "node_digest")
       ELSE /\ fPc' = OnMissingDigest("node_digest")
            /\ fFailedAt' = "find_export"
            /\ UNCHANGED fLog
    /\ UNCHANGED <<fExports, fHasNode, fPublic, copy_count_proc_hash, replaced_code>>

\* lines 173-183: get_export_node_id, get_node_by_id(..).unwrap().digest().to_hex()
FNodeDigest ==
    /\ UNCHANGED FOthers
    /\ fPc = "node_digest"
    /\ IF fHasNode /\ "copy_count" \in fExports
       THEN /\ FDone("node_digest", "counter_state")
            /\ copy_count_proc_hash' = DigestHex
       ELSE /\ fPc' = OnMissingDigest("counter_state")
            /\ fFailedAt' = "node_digest"
            /\ UNCHANGED <<fLog, copy_count_proc_hash>>
    /\ UNCHANGED <<fExports, fHasNode, fPublic, replaced_code>>

\* lines 193-204: get_account_update(..).unwrap(), panic!("counter contract
\* must be public"), slots().first().unwrap()
FCounterState ==
    /\ UNCHANGED FOthers
    /\ fPc = "counter_state"
    /\ \/ fPublic /\ FDone("counter_state", "build_counter")
       \/ FPanic("counter_state")
    /\ UNCHANGED <<fExports, fHasNode, fPublic, copy_count_proc_hash, replaced_code>>

\* lines 207-256: compile the counter component, build the account from its
\* parts, client.add_account(..).unwrap()
FBuildCounter ==
    /\ UNCHANGED FOthers
    /\ FCall("build_counter", "resolve_script")
    /\ UNCHANGED <<fExports, fHasNode, fPublic, copy_count_proc_hash, replaced_code>>

\* lines 264-268: read reader_script.masm (unwrap) and
\* original_code.replace("{copy_count}", &copy_count_proc_hash)
FResolveScript ==
    /\ UNCHANGED FOthers
    /\ fPc = "resolve_script"
    /\ \/ /\ FDone("resolve_script", "compile_script")
          /\ replaced_code' =
                replace(ScriptSource, Placeholder(copy_count), copy_count_proc_hash)
       \/ /\ FPanic("resolve_script")
          /\ UNCHANGED replaced_code
    /\ UNCHANGED <<fExports, fHasNode, fPublic, copy_count_proc_hash>>

\* line 271: client.compile_tx_script(vec![], &replaced_code).unwrap()
FCompileScript ==
    /\ UNCHANGED FOthers
    /\ fPc = "compile_script"
    /\ \/ /\ ~ Occurs(Placeholder(copy_count), replaced_code)
          /\ FDone("compile_script", "build_request")
       \/ FPanic("compile_script")
    /\ UNCHANGED <<fExports, fHasNode, fPublic, copy_count_proc_hash, replaced_code>>

\* lines 273-281: ForeignAccount::public(..).unwrap(), the request builder
FBuildRequest ==
    /\ UNCHANGED FOthers
    /\ FCall("build_request", "new_transaction")
    /\ UNCHANGED <<fExports, fHasNode, fPublic, copy_count_proc_hash, replaced_code>>

\* lines 284-287: client.new_transaction(..).await.unwrap()
FNewTransaction ==
    /\ UNCHANGED FOthers
    /\ FCall("new_transaction", "submit")
    /\ UNCHANGED <<fExports, fHasNode, fPublic, copy_count_proc_hash, replaced_code>>

\* line 296: let _ = client.submit_transaction(tx_result).await; the result
\* is dropped, an Err included.
FSubmit ==
    /\ UNCHANGED FOthers
    /\ fPc = "submit"
    /\ \E outcome \in {"submit", "submit_err"} : FDone(outcome, "sync_after")
    /\ UNCHANGED <<fExports, fHasNode, fPublic, copy_count_proc_hash, replaced_code>>

\* lines 299-300: sleep(3 s), client.sync_state().await.unwrap()
FSyncAfter ==
    /\ UNCHANGED FOthers
    /\ FCall("sync_after", "read_back")
    /\ UNCHANGED <<fExports, fHasNode, fPublic, copy_count_proc_hash, replaced_code>>

\* lines 303-318: get_account(..).await.unwrap() twice, Ok(())
FReadBack ==
    /\ UNCHANGED FOthers
    /\ fPc = "read_back"
    /\ (FDone("read_back", "done") \/ FPanic("read_back"))
    /\ UNCHANGED <<fExports, fHasNode, fPublic, copy_count_proc_hash, replaced_code>>

FNext ==
    \/ FSync
    \/ FResolveReader
    \/ FCompileReader
    \/ FAddReader
    \/ FFindExport
    \/ FNodeDigest
    \/ FCounterState
    \/ FBuildCounter
    \/ FResolveScript
    \/ FCompileScript
    \/ FBuildRequest
    \/ FNewTransaction
    \/ FSubmit
    \/ FSyncAfter
    \/ FReadBack

\* ====================================================================
\* Authenticated consumption: the mint / wait / consume steps of
\* hash_preimage_note.rs (main, lines 157-252) and the mint and consolidation
\* loops of create_mint_consume_send.rs (main, lines 152-206). The accounts
\* are created by the run itself: in hash_preimage_note.rs the only notes
\* they can consume are the ones the run creates. The consolidation loop
\* tests the exact number of alice's notes, so there a note that another
\* party sends to alice is part of the model as well.
\* ====================================================================

Accounts == {"alice", "bob", "faucet"}

\* create_mint_consume_send.rs line 152 (for i in 1..=5) and line 188 (== 5)
MintCount == 5

\* hash_preimage_note.rs lines 180 and 237: the argument expected
WaitExpectedNone == 1 - 1
WaitExpected == 1

\* Note ids: p2id_note.id(), custom_note.id(), and the note of the i-th mint.
p2id_note_id == <<"p2id", 0>>
custom_note_id == <<"custom", 0>>
MintNoteId(i) == <<"mint", i>>
foreign_note_id == <<"foreign", 0>>

\* The account get_consumable_notes reports a note for: the P2ID target, and
\* bob for the custom note.
Owner(n) == IF n = custom_note_id THEN "bob" ELSE "alice"

\* get_consumable_notes(Some(account)) on a local view
Consumable(account, view) == {n \in view : Owner(n) = account}

NoATx == [kind |-> "none", account |-> "none", outputs |-> {}, inputs |-> {},
          auth |-> FALSE]

\* The consumption transactions among the accepted ones.
AConsumes == SelectSeq(aSubmitted, LAMBDA t : t.kind = "consume")

\* create_mint_consume_send.rs line 198: break; the variant stays in the loop.
KAfterConsumeStay == "k_loop_sync"
KAfterConsume == "k_done"

\* create_mint_consume_send.rs lines 179-181, 205: the next iteration begins
\* with sync_state; the variant goes straight to the query.
KAfterSleepNoSync == "k_loop_query"
KAfterSleep == "k_loop_sync"

\* create_mint_consume_send.rs line 188
FoundAll(n) == n = MintCount

\* new_transaction executes an authenticated input note against the local
\* store: the note has to be there as a consumable note of the account.
ACanExecute(tx) ==
    tx.auth => tx.inputs \subseteq Consumable(tx.account, aSynced)

\* client.new_transaction(account, request): Ok(result), or an Err that is
\* propagated by `?` (onErr = "failed") or unwrapped (onErr = "panicked").
ANewTransaction(step, tx, nextPc, onErr) ==
    /\ aPc = step
    /\ aRequests' = Append(aRequests, [tx |-> tx, seen |-> aSeen[tx.account],
                                       notes |-> aNotes])
    /\ aLast' = "new_transaction"
    /\ \/ /\ ACanExecute(tx)
          /\ aTx' = tx
          /\ aPc' = nextPc
          /\ UNCHANGED aFailed
       \/ /\ aPc' = onErr
          /\ aFailed' = step
          /\ UNCHANGED aTx
    /\ UNCHANGED <<aFlow, aNotes, aSynced, aLedger, aPending, aSubmitted, aSeen,
                   aHanded>>

\* client.submit_transaction(result): accepted, or an Err that is propagated
\* (onErr = "failed") or dropped by `let _ =` (onErr = nextPc).
ASubmitTransaction(step, nextPc, onErr) ==
    /\ aPc = step
    /\ aHanded' = aHanded + 1
    /\ aLast' = "submit_transaction"
    /\ \/ /\ aSubmitted' = Append(aSubmitted, aTx)
          /\ aPending' = aPending \cup {aTx}
          /\ aPc' = nextPc
          /\ UNCHANGED aFailed
       \/ /\ aPc' = onErr
          /\ aFailed' = step
          /\ UNCHANGED <<aSubmitted, aPending>>
    /\ UNCHANGED <<aFlow, aTx, aNotes, aSynced, aLedger, aRequests, aSeen>>

\* client.sync_state().await?: the local view becomes what the ledger holds.
ASyncState(step, nextPc) ==
    /\ aPc = step
    /\ aLast' = "sync_state"
    /\ \/ /\ aSynced' = aLedger
          /\ aPc' = nextPc
          /\ UNCHANGED aFailed
       \/ /\ aPc' = "failed"
          /\ aFailed' = step
          /\ UNCHANGED aSynced
    /\ UNCHANGED <<aFlow, aTx, aNotes, aLedger, aPending, aSubmitted, aRequests,
                   aSeen, aHanded>>

\* client.get_consumable_notes(Some(account)).await?
AGetConsumableNotes(step, account, nextPc) ==
    /\ aPc = step
    /\ aLast' = "get_consumable_notes"
    /\ \/ /\ aNotes' = Consumable(account, aSynced)
          /\ aSeen' = [aSeen EXCEPT ![account] = @ \cup Consumable(account, aSynced)]
          /\ aPc' = nextPc
          /\ UNCHANGED aFailed
       \/ /\ aPc' = "failed"
          /\ aFailed' = step
          /\ UNCHANGED <<aNotes, aSeen>>
    /\ UNCHANGED <<aFlow, aTx, aSynced, aLedger, aPending, aSubmitted, aRequests,
                   aHanded>>

\* A step that only moves main on.
AGoto(step, nextPc) ==
    /\ aPc = step
    /\ aPc' = nextPc
    /\ UNCHANGED <<aFlow, aTx, aSynced, aLedger, aPending, aSubmitted, aRequests,
                   aSeen, aHanded, aLast, aFailed>>

\* The network includes an accepted transaction in a block: its output notes
\* are on the ledger, its input notes are consumed.
AInclude ==
    /\ UNCHANGED AOthers
    /\ \E tx \in aPending :
          /\ aLedger' = (aLedger \ tx.inputs) \cup tx.outputs
          /\ aPending' = aPending \ {tx}
    /\ UNCHANGED <<aFlow, aPc, aI, aTx, aNotes, aSynced, aSubmitted, aRequests,
                   aSeen, aHanded, aLast, aFailed>>

\* Another party's P2ID note for alice is included in a block while
\* create_mint_consume_send.rs runs.
KForeignNote ==
    /\ UNCHANGED AOthers
    /\ aFlow = "consolidate"
    /\ aPc \notin {"failed", "k_done"}
    /\ foreign_note_id \notin aLedger
    /\ \A k \in 1..Len(aSubmitted) : foreign_note_id \notin aSubmitted[k].inputs
    /\ aLedger' = aLedger \cup {foreign_note_id}
    /\ UNCHANGED <<aFlow, aPc, aI, aTx, aNotes, aSynced, aPending, aSubmitted,
                   aRequests, aSeen, aHanded, aLast, aFailed>>

AInitCommon ==
    /\ aI = 1
    /\ aTx = NoATx
    /\ aNotes = {}
    /\ aSynced = {}
    /\ aLedger = {}
    /\ aPending = {}
    /\ aSubmitted = <<>>
    /\ aRequests = <<>>
    /\ aSeen = [a \in Accounts |-> {}]
    /\ aHanded = 0
    /\ aLast = "none"
    /\ aFailed = "none"

\* ------------------------------------------- hash_preimage_note.rs, main

\* The consumer and the note of the part main is in.
HConsumer == IF aI = 1 THEN "alice" ELSE "bob"
HNote == IF aI = 1 THEN p2id_note_id ELSE custom_note_id

HInit ==
    /\ aFlow = "hash_preimage"
    /\ aPc = "h_mint_exec"
    /\ AInitCommon

\* lines 160-170: mint_fungible_asset(.., alice, Public, ..); new_transaction(faucet)?
HMintExec ==
    /\ UNCHANGED AOthers
    /\ ANewTransaction("h_mint_exec",
          [kind |-> "mint", account |-> "faucet", outputs |-> {p2id_note_id},
           inputs |-> {}, auth |-> FALSE],
          "h_mint_submit", "failed")
    /\ UNCHANGED aI

\* lines 171-179: submit_transaction(tx_exec.clone())?, p2id_note, sleep
HMintSubmit ==
    /\ UNCHANGED AOthers
    /\ ASubmitTransaction("h_mint_submit", "h_wait_sync", "failed")
    /\ UNCHANGED aI

\* wait_for_notes, line 118 (called at lines 180 and 237)
HWaitSync ==
    /\ UNCHANGED AOthers
    /\ ASyncState("h_wait_sync", "h_wait_query")
    /\ UNCHANGED aI

\* wait_for_notes, line 119
HWaitQuery ==
    /\ UNCHANGED AOthers
    /\ AGetConsumableNotes("h_wait_query", HConsumer, "h_wait_check")
    /\ UNCHANGED aI

\* wait_for_notes, lines 120-127, 130
HWaitCheck ==
    /\ UNCHANGED AOthers
    /\ AGoto("h_wait_check",
             IF Enough(Cardinality(aNotes), WaitExpected)
             THEN "h_consume_exec" ELSE "h_wait_sleep")
    /\ UNCHANGED <<aI, aNotes>>

\* wait_for_notes, lines 128-129
HWaitSleep ==
    /\ UNCHANGED AOthers
    /\ AGoto("h_wait_sleep", "h_wait_sync")
    /\ aNotes' = {}
    /\ UNCHANGED aI

\* lines 182-187: with_authenticated_input_notes([(p2id_note.id(), None)]),
\* new_transaction(alice)?; lines 240-246: the same for custom_note.id() with
\* the secret, new_transaction(bob).unwrap()
HConsumeExec ==
    /\ UNCHANGED AOthers
    /\ ANewTransaction("h_consume_exec",
          [kind |-> "consume", account |-> HConsumer, outputs |-> {},
           inputs |-> {HNote}, auth |-> TRUE],
          "h_consume_submit", IF aI = 1 THEN "failed" ELSE "panicked")
    /\ UNCHANGED aI

\* line 188: submit_transaction(tx_exec)?; line 252: let _ = submit_transaction(..)
HConsumeSubmit ==
    /\ UNCHANGED AOthers
    /\ IF aI = 1
       THEN ASubmitTransaction("h_consume_submit", "h_sync_after", "failed")
       ELSE ASubmitTransaction("h_consume_submit", "h_done", "h_done")
    /\ UNCHANGED aI

\* line 189: sync_state()?, then step 3 begins
HSyncAfter ==
    /\ UNCHANGED AOthers
    /\ ASyncState("h_sync_after", "h_create_exec")
    /\ aI' = IF aPc' = "h_create_exec" THEN aI + 1 ELSE aI

\* lines 196-226: the custom note, with_own_output_notes, new_transaction(alice).unwrap()
HCreateExec ==
    /\ UNCHANGED AOthers
    /\ ANewTransaction("h_create_exec",
          [kind |-> "create", account |-> "alice", outputs |-> {custom_note_id},
           inputs |-> {}, auth |-> FALSE],
          "h_create_submit", "panicked")
    /\ UNCHANGED aI

\* line 231: let _ = client.submit_transaction(tx_result).await;
HCreateSubmit ==
    /\ UNCHANGED AOthers
    /\ ASubmitTransaction("h_create_submit", "h_sync", "h_sync")
    /\ UNCHANGED aI

\* line 232: sync_state()?, then wait_for_notes(bob, 1) of line 237
HSyncCreated ==
    /\ UNCHANGED AOthers
    /\ ASyncState("h_sync", "h_wait_sync")
    /\ UNCHANGED aI

\* ------------------------------------- create_mint_consume_send.rs, main

KInit ==
    /\ aFlow = "consolidate"
    /\ aPc = "k_mint_exec"
    /\ AInitCommon

\* lines 152-163: for i in 1..=5, mint_fungible_asset(.., alice, ..),
\* new_transaction(faucet)?
KMintExec ==
    /\ UNCHANGED AOthers
    /\ ANewTransaction("k_mint_exec",
          [kind |-> "mint", account |-> "faucet", outputs |-> {MintNoteId(aI)},
           inputs |-> {}, auth |-> FALSE],
          "k_mint_submit", "failed")
    /\ UNCHANGED aI

\* lines 165-167: submit_transaction(..)?, the end of the loop body
KMintSubmit ==
    /\ UNCHANGED AOthers
    /\ ASubmitTransaction("k_mint_submit",
                          IF aI < MintCount THEN "k_mint_exec" ELSE "k_sync", "failed")
    /\ aI' = IF aPc' = "k_mint_exec" THEN aI + 1 ELSE aI

\* line 171
KSyncAfterMint ==
    /\ UNCHANGED AOthers
    /\ ASyncState("k_sync", "k_loop_sync")
    /\ UNCHANGED aI

\* line 181
KLoopSync ==
    /\ UNCHANGED AOthers
    /\ ASyncState("k_loop_sync", "k_loop_query")
    /\ UNCHANGED aI

\* lines 183-186
KLoopQuery ==
    /\ UNCHANGED AOthers
    /\ AGetConsumableNotes("k_loop_query", "alice", "k_loop_check")
    /\ UNCHANGED aI

\* lines 188, 199
KLoopCheck ==
    /\ UNCHANGED AOthers
    /\ AGoto("k_loop_check",
             IF FoundAll(Cardinality(aNotes)) THEN "k_consume_exec" ELSE "k_sleep")
    /\ UNCHANGED <<aI, aNotes>>

\* lines 190-194: consume_notes(list_of_note_ids), new_transaction(alice)?
KConsumeExec ==
    /\ UNCHANGED AOthers
    /\ ANewTransaction("k_consume_exec",
          [kind |-> "consume", account |-> "alice", outputs |-> {},
           inputs |-> aNotes, auth |-> TRUE],
          "k_consume_submit", "failed")
    /\ UNCHANGED aI

\* lines 196-198: submit_transaction(..)?, break
KConsumeSubmit ==
    /\ UNCHANGED AOthers
    /\ ASubmitTransaction("k_consume_submit", KAfterConsume, "failed")
    /\ UNCHANGED aI

\* lines 200-204: the message and sleep(3 s)
KSleep ==
    /\ UNCHANGED AOthers
    /\ AGoto("k_sleep", KAfterSleep)
    /\ aNotes' = {}
    /\ UNCHANGED aI

ANext ==
    \/ AInclude
    \/ KForeignNote
    \/ HMintExec
    \/ HMintSubmit
    \/ HWaitSync
    \/ HWaitQuery
    \/ HWaitCheck
    \/ HWaitSleep
    \/ HConsumeExec
    \/ HConsumeSubmit
    \/ HSyncAfter
    \/ HCreateExec
    \/ HCreateSubmit
    \/ HSyncCreated
    \/ KMintExec
    \/ KMintSubmit
    \/ KSyncAfterMint
    \/ KLoopSync
    \/ KLoopQuery
    \/ KLoopCheck
    \/ KConsumeExec
    \/ KConsumeSubmit
    \/ KSleep

RIdle ==
    /\ rPc = "idle"
    /\ storage = StorageOf(0, 0, <<>>)
    /\ overflow_checks = TRUE
    /\ trading_pair = 1
    /\ publisher_count = 0
    /\ rI = 1
    /\ publisher_ids = <<>>
    /\ rJ = 1
    /\ foreign_accounts = <<>>
    /\ returned = NoList
    /\ rFailed = {}

CIdle ==
    /\ cPc = "idle"
    /\ accounts_len = 2
    /\ ci = 0
    /\ p2id_note = NoNote
    /\ deserialized_p2id_note = NoNote
    /\ tx_execution_result = NoTx
    /\ submitted = <<>>
    /\ balance = [a \in 0..1 |-> 0]
    /\ start_balance = [a \in 0..1 |-> 0]
    /\ next_serial = 1
    /\ nExec = 0
    /\ nSubmit = 0
    /\ nSync = 0
    /\ failedAt = NoFailure

WIdle ==
    /\ wPc = "idle"
    /\ expected = 0
    /\ notes = {}
    /\ synced_notes = {}
    /\ ledger_notes = {}
    /\ minted = 0
    /\ mint_total = 0

TIdle ==
    /\ tPc = "idle"
    /\ tSource = <<>>
    /\ tBindings = [n \in Names |-> Unbound]
    /\ tText = <<>>
    /\ tFirst = <<>>

FIdle ==
    /\ fPc = "idle"
    /\ fExports = {}
    /\ fHasNode = FALSE
    /\ fPublic = FALSE
    /\ copy_count_proc_hash = NoDigest
    /\ replaced_code = <<>>
    /\ fLog = <<>>
    /\ fFailedAt = "none"

AIdle ==
    /\ aFlow = "idle"
    /\ aPc = "idle"
    /\ AInitCommon

SIdle ==
    /\ sPc = "idle"
    /\ sCount = 0
    /\ sI = 0
    /\ sChecks = FALSE
    /\ sSlot = 0

InitResolver == RInit /\ CIdle /\ WIdle /\ TIdle /\ FIdle /\ AIdle /\ SIdle
SpecResolver == InitResolver /\ [][RNext]_vars

InitChain == CInit /\ RIdle /\ WIdle /\ TIdle /\ FIdle /\ AIdle /\ SIdle
SpecChain == InitChain /\ [][CNext]_vars

InitPoller == WInit /\ RIdle /\ CIdle /\ TIdle /\ FIdle /\ AIdle /\ SIdle
SpecPoller == InitPoller /\ [][WNext]_vars

InitTemplate == TInit /\ RIdle /\ CIdle /\ WIdle /\ FIdle /\ AIdle /\ SIdle
SpecTemplate == InitTemplate /\ [][TNext]_vars

InitFpi == FInit /\ RIdle /\ CIdle /\ WIdle /\ TIdle /\ AIdle /\ SIdle
SpecFpi == InitFpi /\ [][FNext]_vars

\* The slot index expression on its own, over every count up to MaxDirCount.
InitSlotIndex == SInit /\ RIdle /\ CIdle /\ WIdle /\ TIdle /\ FIdle /\ AIdle
SpecSlotIndex == InitSlotIndex /\ [][SNext]_vars

\* Either of the two mains with an authenticated consumption.
InitAuth == (HInit \/ KInit) /\ RIdle /\ CIdle /\ WIdle /\ TIdle /\ FIdle /\ SIdle
SpecAuth == InitAuth /\ [][ANext]_vars

\* Every workflow that consumes notes: the note chain and the two above.
InitConsume == InitChain \/ InitAuth
NextConsume == CNext \/ ANext
SpecConsume == InitConsume /\ [][NextConsume]_vars

\* The poller and the producer under fair scheduling, with no failing call:
\* the single thread of wait_for_notes always takes its next step, every mint
\* the producer has to make is made, and every minted note is included.
SpecPollerLive ==
    /\ InitPoller
    /\ [][WNextNoFail]_vars
    /\ WF_vars(WSyncOk)
    /\ WF_vars(WQueryOk)
    /\ WF_vars(WCheck)
    /\ WF_vars(WSleep)
    /\ WF_vars(Mint)
    /\ WF_vars(Commit)

\* C1: whenever get_oracle_foreign_accounts succeeds on a directory whose
\* count is c, the list it returns holds exactly max(c-2, 0) leaf references
\* (the ids decoded from slots 3, 4, ...) followed by exactly one reference
\* to the root account: its length is max(c-2, 0) + 1.
C1_LeafCountPlusRoot ==
    rPc = "ok" =>
        LET c == storage[CountSlot][1]
            m == Max0(c - 2)
        IN  /\ returned.status = "ok"
            /\ Len(returned.list) = m + 1
            /\ \A k \in 1..m : returned.list[k].id = DecodeId(storage[DirBase + k])
            /\ returned.list[m + 1].id = oracle_account_id

\* C1 witness: a successful call on a directory of count 3 returned 2 references.
C1_Witness ==
    /\ rPc = "ok"
    /\ storage[CountSlot][1] = 3
    /\ Len(returned.list) = 2

\* C2: in every returned list the last element is the reference to the root
\* account with no storage requirement, and every other element declares
\* exactly the key [0, 0, 0, trading_pair] of slot 1 and nothing else.
C2_RootLastUnrestricted ==
    rPc = "ok" =>
        /\ returned.list[Len(returned.list)] = [id |-> oracle_account_id, reqs |-> {}]
        /\ \A k \in 1..(Len(returned.list) - 1) :
              returned.list[k].reqs = {<<1, {<<0, 0, 0, trading_pair>>}>>}

\* C2 witness: a returned list with two leaf references before the root.
C2_Witness ==
    /\ rPc = "ok"
    /\ Len(returned.list) = 3
    /\ returned.list[1].reqs # {}

\* C3: once the read or the import of a directory entry has failed, the
\* function has stopped (panic or Err) and no list is handed to the caller;
\* a returned list never comes from a run in which an entry failed.
C3_NoSkipOnFailure ==
    rFailed # {} => (rPc \in {"err", "panic"} /\ returned = NoList)

\* C3 witness: the second entry could not be read after the first one was decoded.
C3_Witness ==
    /\ rPc = "panic"
    /\ rFailed = {2}
    /\ Len(publisher_ids) = 1

\* Positions in `submitted` of the transactions of kind k of hop h.
PositionsOf(k, h) ==
    {j \in 1..Len(submitted) : submitted[j].kind = k /\ submitted[j].hop = h}

\* The chain loop has run to its end and no client call has failed.
LoopCompleted ==
    /\ cPc \in {"final_sync", "print_balances", "done"}
    /\ failedAt = NoFailure

\* C4: when the chain loop over N accounts completes without a failure it has
\* submitted exactly 2(N-1) transactions: for each hop i in 0..N-2 exactly
\* one note creation and exactly one note consumption, and nothing else.
C4_TwoTxPerHop ==
    LoopCompleted =>
        /\ Len(ChainTxs) = 2 * (accounts_len - 1)
        /\ \A h \in 0..(accounts_len - 2) :
              /\ Cardinality(PositionsOf("create", h)) = 1
              /\ Cardinality(PositionsOf("consume", h)) = 1
        /\ \A j \in 1..Len(ChainTxs) : ChainTxs[j].hop \in 0..(accounts_len - 2)

\* C4 witness: a chain of 4 accounts ran to the end with 6 chain transactions.
C4_Witness ==
    /\ cPc = "done"
    /\ accounts_len = 4
    /\ Len(ChainTxs) = 6

\* C5: in the order of submission, the consumption of a hop's note always
\* comes strictly after the creation of that hop's note.
C5_ConsumeAfterCreate ==
    \A k \in 1..Len(submitted) :
        (submitted[k].kind = "consume" /\ submitted[k].hop >= 0) =>
            \E j \in 1..(k - 1) :
                /\ submitted[j].kind = "create"
                /\ submitted[j].hop = submitted[k].hop

\* C5 witness: the consumption of hop 1 has been submitted.
C5_Witness ==
    \E k \in 1..Len(submitted) :
        submitted[k].kind = "consume" /\ submitted[k].hop = 1

\* C6 as the spec states it: a chain of 3 accounts moving 20 per hop ends with
\* 4 transactions and balance changes account0: -40, account1: 0, account2: +20.
C6_AsStated ==
    (cPc = "done" /\ accounts_len = 3) =>
        /\ Len(ChainTxs) = 4
        /\ balance[0] - start_balance[0] = -40
        /\ balance[1] - start_balance[1] = 0
        /\ balance[2] - start_balance[2] = 20

\* C6 (amended): a chain of 3 accounts moving 20 per hop ends with 4
\* transactions and balance changes account0: -20, account1: 0, account2: +20
\* (account 0 creates one note only; the changes sum to zero).
C6_ChainOfThree ==
    (cPc = "done" /\ accounts_len = 3) =>
        /\ Len(ChainTxs) = 4
        /\ balance[0] - start_balance[0] = -20
        /\ balance[1] - start_balance[1] = 0
        /\ balance[2] - start_balance[2] = 20

\* C6 witness: the chain of 3 accounts has finished.
C6_Witness ==
    /\ cPc = "done"
    /\ accounts_len = 3
    /\ send_amount = 20
    /\ Len(ChainTxs) = 4

IsPrefix(s, t) == Len(s) <= Len(t) /\ \A j \in 1..Len(s) : s[j] = t[j]

\* C8: a failed execution or submission ends the workflow. The failing call
\* submits nothing and changes no balance; after it no transaction is executed
\* or submitted and no sync is made (so nothing is retried); and what was
\* submitted before stays submitted, with its effect on the balances.
C8_AbortOnFailure ==
    [][ /\ IsPrefix(submitted, submitted')
        /\ (failedAt = NoFailure /\ failedAt' # NoFailure) =>
              (submitted' = submitted /\ balance' = balance /\ cPc' = "failed")
        /\ failedAt # NoFailure =>
              /\ nExec' = nExec /\ nSubmit' = nSubmit /\ nSync' = nSync
              /\ submitted' = submitted /\ balance' = balance
              /\ cPc' = "failed" ]_vars

\* C8 witness: the consumption of hop 1 failed at submission after three chain
\* transactions had been submitted.
C8_Witness ==
    /\ cPc = "failed"
    /\ failedAt = [step |-> "consume_submit", hop |-> 1]
    /\ Len(ChainTxs) = 3

\* C9: wait_for_notes returns success only when the notes returned by the
\* query of this iteration, which reads the view left by the sync of the same
\* iteration, number at least expected.
C9_SuccessOnlyWhenEnough ==
    wPc = "ok" =>
        /\ Cardinality(notes) >= expected
        /\ notes = synced_notes

\* C9 witness: the poller returned success for expected = 2 having seen two
\* notes, while a third one was already on the ledger.
C9_Witness ==
    /\ wPc = "ok"
    /\ expected = 2
    /\ Cardinality(notes) = 2
    /\ Cardinality(ledger_notes) = 3

\* C10: called with expected = 5 for an account with no consumable note, while
\* the producer mints exactly 5 notes that all become consumable, the poller
\* eventually returns success (fair scheduling, no failing client call).
C10_FiveNotesEventuallyOk ==
    (expected = 5 /\ mint_total = 5 /\ ledger_notes = {}) => <>(wPc = "ok")

\* C10 witness: the poller called with expected = 5 returned after the
\* producer's 5 notes were seen.
C10_Witness ==
    /\ wPc = "ok"
    /\ expected = 5
    /\ mint_total = 5
    /\ Cardinality(notes) = 5

\* C11: with no failing sync or query, a poller whose account never gets as
\* many consumable notes as expected (the producer mints fewer) never
\* returns, neither with success nor with an error, and keeps polling: it is
\* at its sleep again and again, without bound.
C11_UnmetPollsForever ==
    (mint_total < expected) =>
        ([](wPc \notin {"ok", "err"}) /\ []<>(wPc = "sleep") /\ []<>(wPc = "sync"))

\* C11 witness: every note the producer mints has been seen by the poller,
\* they are fewer than expected, and the poller sleeps before yet another
\* iteration.
C11_Witness ==
    /\ wPc = "sleep"
    /\ mint_total = 2
    /\ expected = 3
    /\ Cardinality(notes) = mint_total

\* C12: a step of wait_for_notes (any step that moves the poller) creates and
\* consumes no note and executes and submits no transaction: the notes on
\* the ledger, the producer's mints, the transaction log and the balances are
\* the same after it; the local view changes only in the sync call, and then
\* to what the ledger holds.
C12_PollerFrame ==
    [][ /\ (wPc' # wPc) =>
            /\ ledger_notes' = ledger_notes
            /\ minted' = minted
            /\ mint_total' = mint_total
            /\ expected' = expected
            /\ submitted' = submitted
            /\ balance' = balance
            /\ nExec' = nExec
            /\ nSubmit' = nSubmit
        /\ (synced_notes' # synced_notes) =>
            (wPc = "sync" /\ synced_notes' = ledger_notes) ]_vars

\* C12 witness: the poller has returned Ok after a re-sync brought two notes
\* into the local view, both still on the ledger.
C12_Witness ==
    /\ wPc = "ok"
    /\ expected = 2
    /\ Cardinality(synced_notes) = 2
    /\ synced_notes \subseteq ledger_notes

\* The positions of the program inside the chain loop (lines 175-247).
InChainLoop == cPc \in {"loop", "loop_next"} \cup {HopSteps[j] : j \in 1..Len(HopSteps)}

\* C19: every consumption the chain loop submits is unauthenticated and its
\* request holds the whole note of its hop, the one the hop's creation
\* transaction issued; and no step taken inside the loop is a sync: the
\* number of sync_state calls does not change from loop entry to loop exit.
C19_UnauthenticatedNoResync ==
    /\ [](\A k \in 1..Len(submitted) :
            (submitted[k].hop >= 0 /\ submitted[k].kind = "consume") =>
                /\ submitted[k].input = "unauthenticated"
                /\ submitted[k].note # NoNote
                /\ k > 1
                /\ submitted[k - 1].kind = "create"
                /\ submitted[k - 1].hop = submitted[k].hop
                /\ submitted[k].note = submitted[k - 1].note)
    /\ [][InChainLoop => nSync' = nSync]_vars

\* C19 witness: a chain of three hops ran to its end; the only sync before
\* the final one is the one that precedes the loop.
C19_Witness ==
    /\ cPc = "final_sync"
    /\ accounts_len = 4
    /\ Len(ChainTxs) = 6
    /\ nSync = 1

\* C20: the transactions of hop i are a creation executed against
\* accounts[i] and a consumption executed against accounts[i + 1], of a note
\* whose sender is accounts[i], whose target is accounts[i + 1] and whose
\* asset amount is the per-hop amount; the hops are 0 .. N-2.
C20_HopEndpoints ==
    \A k \in 1..Len(submitted) :
        LET t == submitted[k] IN
        t.hop >= 0 =>
            /\ t.hop \in 0..(accounts_len - 2)
            /\ t.note.sender = t.hop
            /\ t.note.target = t.hop + 1
            /\ t.note.amount = send_amount
            /\ t.kind \in {"create", "consume"}
            /\ t.kind = "create" => t.account = t.hop
            /\ t.kind = "consume" => t.account = t.hop + 1

\* C20 witness: the last hop of a five-account chain has been consumed by
\* accounts[4].
C20_Witness ==
    /\ accounts_len = 5
    /\ Len(submitted) > 0
    /\ submitted[Len(submitted)].kind = "consume"
    /\ submitted[Len(submitted)].hop = 3
    /\ submitted[Len(submitted)].account = 4

\* The orders in which the replace calls of the three names can be chained.
Orders == {o \in [1..Cardinality(Names) -> Names] : \A i, j \in DOMAIN o : o[i] = o[j] => i = j}

\* A value with no brace in it and with a character that occurs in no
\* placeholder name: what to_hex() of a digest and to_string() of an id half
\* yield.
PlainValue(v) ==
    /\ \A i \in DOMAIN v : v[i] \notin {"{", "}"}
    /\ \E i \in DOMAIN v : v[i] \notin Names

PlainBindings == \A n \in Names : tBindings[n] # Unbound => PlainValue(tBindings[n])

\* C14 as stated: for every source text and every set of bindings, the
\* replace chain applied to the resolved text gives the resolved text again.
C14_AsStated == (tPc = "again") => (tText = tFirst)

\* C14: for every source text and every set of bindings whose values hold no
\* brace and each hold a character that occurs in no placeholder name, the
\* replace chain applied to the resolved text gives the resolved text again.
C14_IdempotentOnPlainValues == (tPc = "again" /\ PlainBindings) => (tText = tFirst)

\* C14 witness: a source with two placeholders, both bound to plain values,
\* has been resolved twice, and the resolution did change the source.
C14_Witness ==
    /\ tPc = "again"
    /\ PlainBindings
    /\ tSource = Placeholder(get_count_proc_hash) \o Placeholder(account_id_prefix)
    /\ tBindings[get_count_proc_hash] = <<"0", "h">>
    /\ tBindings[account_id_prefix] = <<"0">>
    /\ tFirst = <<"0", "h", "0">>

\* C15 as stated: for every source text and every set of bindings, every
\* order of the replace calls yields the text the code's order yields.
C15_AsStated ==
    (tPc = "resolved") => \A o \in Orders : ResolveIn(o, tSource, tBindings) = tFirst

\* C15: for every source text and every set of bindings whose values hold no
\* brace and each hold a character that occurs in no placeholder name, every
\* order of the replace calls yields the text the code's order yields.
C15_OrderIndependentOnPlainValues ==
    (tPc = "resolved" /\ PlainBindings) =>
        \A o \in Orders : ResolveIn(o, tSource, tBindings) = tFirst

\* C15 witness: all three placeholders occur in the source and are bound to
\* plain values, not all the same, and the chain has run.
C15_Witness ==
    /\ tPc = "resolved"
    /\ PlainBindings
    /\ \A n \in Names : tBindings[n] # Unbound /\ Occurs(Placeholder(n), tSource)
    /\ tBindings[account_id_prefix] # tBindings[account_id_suffix]
    /\ \A n \in Names : ~ Occurs(Placeholder(n), tFirst)

\* C16: the replace chain has no failure outcome: after it the program is at
\* the compile call, and a placeholder without a binding is still in the
\* text, as many times as in the source (or more, never fewer; exactly as
\* many when the bound values are plain). The only failure there is, is the
\* one of the compile call.
C16_UnboundLeftInPlace ==
    /\ tPc # "resolve_error"
    /\ tPc \in {"resolved", "compiled", "compile_error"} =>
        /\ tText = tFirst
        /\ \A n \in Names : tBindings[n] = Unbound =>
            /\ Count(Placeholder(n), tText) >= Count(Placeholder(n), tSource)
            /\ PlainBindings =>
                  Count(Placeholder(n), tText) = Count(Placeholder(n), tSource)
    /\ tPc = "compiled" => \A n \in Names : ~ Occurs(Placeholder(n), tText)

\* C16 witness: the source holds a bound and an unbound placeholder; the
\* bound one was replaced, the unbound one is still there, and the compile
\* call has failed.
C16_Witness ==
    /\ tPc = "compile_error"
    /\ tBindings[account_id_suffix] = Unbound
    /\ tBindings[get_count_proc_hash] = <<"0">>
    /\ tSource = Placeholder(get_count_proc_hash) \o Placeholder(account_id_suffix)
    /\ tText = <<"0">> \o Placeholder(account_id_suffix)

\* The steps of the FPI workflow that follow the digest lookup of lines 166-185.
AfterLookup ==
    {"counter_state", "build_counter", "resolve_script", "compile_script",
     "build_request", "new_transaction", "submit", "submit_err", "sync_after",
     "read_back"}

\* C17: when the compiled count reader does not export copy_count, or the
\* forest has no node for it, main never gets past the lookup: it panics
\* there, no later call is ever made (no script template is resolved, no
\* script compiled, no transaction executed or submitted), and no text is
\* ever resolved with the missing digest.
C17_MissingDigestStops ==
    /\ ("copy_count" \notin fExports \/ ~ fHasNode) =>
          /\ \A k \in 1..Len(fLog) : fLog[k] \notin AfterLookup
          /\ fPc \notin AfterLookup \cup {"done"}
          /\ fFailedAt \in {"none", "sync", "resolve_reader", "compile_reader",
                            "add_reader", "find_export", "node_digest"}
          /\ replaced_code = <<>>
    /\ (replaced_code # <<>>) =>
          /\ copy_count_proc_hash # NoDigest
          /\ ~ Occurs(NoDigest, replaced_code)

\* C17 witness: the component exports other names but not copy_count, and
\* main has panicked in the find of lines 167-171, after the calls that
\* precede it.
C17_Witness ==
    /\ fPc = "panicked"
    /\ fFailedAt = "find_export"
    /\ fExports = {"other"}
    /\ fLog = <<"sync", "resolve_reader", "compile_reader", "add_reader">>

\* C13: no two accepted transactions have an input note in common. In the
\* chain every consumption names a note of its own, and once the loop is
\* over every note a hop created has been consumed exactly once; in the two
\* authenticated workflows the input sets of the accepted transactions are
\* pairwise disjoint; and the consolidation loop has at most one accepted
\* consumption, also after it has exited.
C13_NoNoteConsumedTwice ==
    /\ \A j, k \in 1..Len(submitted) :
          (j < k /\ submitted[j].kind = "consume" /\ submitted[k].kind = "consume") =>
              NoteId(submitted[j].note) # NoteId(submitted[k].note)
    /\ LoopCompleted =>
          \A j \in 1..Len(submitted) : submitted[j].kind \in {"create", "mint"} =>
              Cardinality({k \in 1..Len(submitted) :
                              /\ submitted[k].kind = "consume"
                              /\ NoteId(submitted[k].note) = NoteId(submitted[j].note)}) = 1
    /\ \A j, k \in 1..Len(aSubmitted) :
          j < k => aSubmitted[j].inputs \cap aSubmitted[k].inputs = {}
    /\ aFlow = "consolidate" => Len(AConsumes) <= 1

\* C13 witness: the consolidation loop has exited after one accepted
\* transaction that consumes the five minted notes.
C13_Witness ==
    /\ aFlow = "consolidate"
    /\ aPc = "k_done"
    /\ Len(AConsumes) = 1
    /\ AConsumes[1].inputs = {MintNoteId(i) : i \in 1..MintCount}

C21_VisibilityAlternates ==
    /\ \A k \in 1..Len(submitted) :
          submitted[k].hop >= 0 =>
              submitted[k].note.note_type =
                  (IF submitted[k].hop % 2 = 0 THEN "Private" ELSE "Public")
    /\ \A j, k \in 1..Len(submitted) :
          (submitted[j].hop >= 0 /\ submitted[k].hop = submitted[j].hop + 1) =>
              submitted[j].note.note_type # submitted[k].note.note_type

\* C21 witness: hops 0, 1 and 2 have been consumed, with a private, a public
\* and again a private note.
C21_Witness ==
    /\ Len(ChainTxs) = 6
    /\ ChainTxs[2].kind = "consume" /\ ChainTxs[2].note.note_type = "Private"
    /\ ChainTxs[4].kind = "consume" /\ ChainTxs[4].note.note_type = "Public"
    /\ ChainTxs[6].kind = "consume" /\ ChainTxs[6].note.note_type = "Private"

\* C22: a workflow calls new_transaction only when every transaction it has
\* executed before has been handed to submit_transaction: the calls of
\* new_transaction are never more than one ahead of the calls of
\* submit_transaction, and when they are one ahead the workflow is about to
\* submit that transaction or has stopped. This holds for the note chain,
\* for the mint and consolidation loops and for hash_preimage_note.rs.
C22_OneTransactionInFlight ==
    /\ [](/\ nExec - nSubmit \in {0, 1}
          /\ nExec = nSubmit + 1 =>
                cPc \in {"mint_submit", "mint_consume_submit", "create_submit",
                         "consume_submit", "failed"}
          /\ Len(aRequests) - aHanded \in {0, 1}
          /\ Len(aRequests) = aHanded + 1 =>
                aPc \in {"h_mint_submit", "h_consume_submit", "h_create_submit",
                         "k_mint_submit", "k_consume_submit", "failed", "panicked"})
    /\ [][ /\ nExec' # nExec => nExec = nSubmit
           /\ aRequests' # aRequests => Len(aRequests) = aHanded ]_vars

\* C22 witness: the five mints and the consolidation have each been executed
\* and then submitted, one after the other.
C22_Witness ==
    /\ aFlow = "consolidate"
    /\ aPc = "k_done"
    /\ Len(aRequests) = MintCount + 1
    /\ aHanded = MintCount + 1
    /\ Len(aSubmitted) = MintCount + 1

C24_AsStated ==
    (aFlow = "consolidate" /\ aPc = "k_sleep") => Cardinality(aNotes) < MintCount

\* C25 as stated: in the FPI workflow a failed submit_transaction is the last
\* call main makes: nothing is logged after it (no sync, no account read).
C25_AsStated ==
    \A k \in 1..Len(fLog) : fLog[k] = "submit_err" => k = Len(fLog)

C27_ChainTotallyOrdered ==
    /\ \A j \in 1..Len(ChainTxs) :
          /\ ChainTxs[j].hop = (j - 1) \div 2
          /\ ChainTxs[j].kind = IF j % 2 = 1 THEN "create" ELSE "consume"
    /\ \A j \in 1..Len(submitted) :
          (submitted[j].kind = "create" /\ submitted[j].hop >= 1) =>
              \E k \in 1..(j - 1) :
                  /\ submitted[k].kind = "consume"
                  /\ submitted[k].hop = submitted[j].hop - 1
    /\ \A j \in 1..Len(submitted) :
          (submitted[j].kind = "consume" /\ submitted[j].hop >= 1) =>
              \E k \in 1..(j - 1) :
                  /\ submitted[k].kind = "create"
                  /\ submitted[k].hop = submitted[j].hop - 1

\* C27 witness: three hops were submitted in full, the third consumption last.
C27_Witness ==
    /\ Len(ChainTxs) = 6
    /\ ChainTxs[5].kind = "create" /\ ChainTxs[5].hop = 2
    /\ ChainTxs[6].kind = "consume" /\ ChainTxs[6].hop = 2

\* The sum of the balances of accounts 0..n.
RECURSIVE SumBalances(_)
SumBalances(n) == IF n < 0 THEN 0 ELSE balance[n] + SumBalances(n - 1)

\* The j-th submitted transaction made a note that no later submitted
\* transaction has consumed.
Unconsumed(j) ==
    /\ submitted[j].kind \in {"mint", "create"}
    /\ ~\E k \in (j + 1)..Len(submitted) :
          /\ submitted[k].kind = "consume"
          /\ NoteId(submitted[k].note) = NoteId(submitted[j].note)

\* The amounts held in created-but-unconsumed notes among the first n
\* submitted transactions.
RECURSIVE HeldInNotes(_)
HeldInNotes(n) ==
    IF n = 0 THEN 0
    ELSE HeldInNotes(n - 1) + (IF Unconsumed(n) THEN submitted[n].note.amount ELSE 0)

\* C28: throughout the chain that starts after 100 units were minted to and
\* consumed by account 0 and moves 20 units per hop, no account's balance is
\* below zero, the sender of a hop holds at least the hop amount when its
\* creation transaction is executed, and the balances plus the amounts held
\* in created-but-unconsumed notes sum to 100 after every submission.
C28_ChainConservesAsset ==
    Len(submitted) >= 2 =>
        /\ \A a \in DOMAIN balance : balance[a] >= 0
        /\ cPc = "create_exec" => balance[ci] >= send_amount
        /\ \A j \in 1..Len(ChainTxs) :
              ChainTxs[j].kind = "create" => ChainTxs[j].note.amount = 20
        /\ SumBalances(accounts_len - 1) + HeldInNotes(Len(submitted)) = 100

\* C28 witness: in the chain of 10 accounts the note of the last hop has been
\* created and not yet consumed: account 8 is back at 0, 20 units are in the
\* note, account 0 keeps 80.
C28_Witness ==
    /\ accounts_len = 10
    /\ cPc = "consume_exec"
    /\ ci = 8
    /\ balance[0] = 80
    /\ balance[8] = 0
    /\ HeldInNotes(Len(submitted)) = 20

\* C29 as stated: for every directory count c and every entry index i in
\* [1, c-1), the slot index computed as 2 + (i truncated to 8 bits) equals
\* 2+i and fits in 8 bits without wrap-around (in particular the expression
\* does not panic), so no other index of the range is read from the same slot.
C29_AsStated ==
    sPc \in {"get_item", "panicked"} =>
        /\ sPc = "get_item"
        /\ sSlot = DirBase + sI
        /\ sSlot < U8
        /\ \A j \in PublisherRange(sCount) : j # sI => SlotIndex(j) # sSlot

\* C30: if the sync call or the consumable-notes query fails in an iteration
\* of wait_for_notes, the poller returns that error in the same iteration:
\* the failing step itself ends the call with the error, and from then on the
\* poller never moves again, so it does not sleep, makes no further sync or
\* query and never reports success for that call.
C30_ErrorReturnedAtOnce ==
    [][ /\ (WSyncErr \/ WQueryErr) => wPc' = "err"
        /\ (wPc = "err") =>
              /\ wPc' = "err"
              /\ notes' = notes
              /\ synced_notes' = synced_notes ]_vars

\* C30 witness: the call has ended with the error of a failed sync or query
\* while it was still short of notes: its last successful sync saw one note
\* of the two expected, and the second one is on the ledger by now.
C30_Witness ==
    /\ wPc = "err"
    /\ expected = 2
    /\ notes = {}
    /\ Cardinality(synced_notes) = 1
    /\ Cardinality(ledger_notes) = 2

====
